---- MODULE Spec2Model ----
(***************************************************************************)
(* A model of the two experiment drivers of wheelerexp:                    *)
(*   fh/rf_motor.py      exp(roi, table, verbose)                          *)
(*   fh/rt_timecourse.py timecourses(roi, table)                           *)
(* One behaviour is one call of one driver.  The state is the driver's     *)
(* local variables, the position in its subject loop and the output table. *)
(* The helpers imported from fmrilearn (construct_filter, filter_targets,  *)
(* merge_labels, eva) are not part of this repository's sources; they are  *)
(* modelled from their description and are marked as such.                 *)
(***************************************************************************)
EXTENDS Integers, Sequences, FiniteSets, TLC

VARIABLES
    prog,              \* which driver runs: "exp" or "timecourses"
    verbose,           \* exp's verbose argument
    pc,                \* position in the driver
    s,                 \* number of subjects the zip() loop has started
    meta,              \* the metadata table read for the current subject
    X,                 \* feature matrix of the current subject: one volume id per row
    ncolX,             \* its column count
    targets,           \* label record of the current subject
    keep,              \* keep_rts / keep_lr, the mask of the last filter step
    i,                 \* timecourses: accepted subjects; exp: the fold counter
    Xeva, yeva, roinames, timecourse_index,          \* timecourses: pooled accumulators
    Xeva_i, yeva_i, roinames_i, timecourse_index_i,  \* timecourses: current subject
    log,               \* roinames printed with a WARNING
    csv,               \* timecourses: the table written by to_csv
    cvres,             \* exp: accuracy_score of each (truth, prediction) of simpleCV
    fpos,              \* exp: position of the save loop in zip(truths, predictions)
    overall_accuracy,  \* exp: the accuracies accumulated over the call
    acctable,          \* exp: the rows handed to save_accuracy_table, in order
    failedAt,          \* subject at which a load failed (0: none)
    cause,             \* why the call aborted
    seen               \* history: the eva matrix of every subject that reached the check

vars == <<prog, verbose, pc, s, meta, X, ncolX, targets, keep, i,
          Xeva, yeva, roinames, timecourse_index,
          Xeva_i, yeva_i, roinames_i, timecourse_index_i,
          log, csv, cvres, fpos, overall_accuracy, acctable, failedAt, cause, seen>>

-----------------------------------------------------------------------------
\* Bounds of the model

MaxSubjects == 3
MaxTcLen == 2
MaxExpLen == 5
MaxEvaRows == 1

\* Input domains
ColCounts == {2, 3}
RtValues == {"rt0", "rt1", "rt2", "rt3", "rt4"}
RespValues == {"left", "right", "none"}
TrialValues == {0, 1}

\* Program constants
NFolds == 5
MINWINDOW == 11

None == "None"
Dead == <<>>

-----------------------------------------------------------------------------
\* Helpers

RECURSIVE SeqSum(_)
SeqSum(q) == IF Len(q) = 0 THEN 0 ELSE Head(q) + SeqSum(Tail(q))

\* Metadata columns: TR strictly increasing volume indices, trialcount nondecreasing.
TrColumns(L) == {t \in [1..L -> 0..L] : \A a, b \in 1..L : a < b => t[a] < t[b]}
TrialColumns(L) == {t \in [1..L -> TrialValues] : \A a, b \in 1..L : a < b => t[a] <= t[b]}

\* load_nii + remove_invariant_features: one row per volume 0..L
Volumes(L) == [k \in 1..(L + 1) |-> k - 1]

\* numpy X[idx, :] with an integer index array
IndexRows(M, idx) == [k \in 1..Len(idx) |-> M[idx[k] + 1]]

\* numpy v[mask] with a boolean mask
RECURSIVE MaskSelect(_, _)
MaskSelect(mask, v) ==
    IF Len(mask) = 0 THEN <<>>
    ELSE (IF Head(mask) THEN <<Head(v)>> ELSE <<>>) \o MaskSelect(Tail(mask), Tail(v))

\* np.array(list).mean(), kept as the fraction sum / count (0/0 is nan)
Mean(q) == [num |-> SeqSum(q), den |-> Len(q)]

\* fmrilearn.preprocess.labels
construct_filter(channel, allowed, keep_if_member) ==
    [k \in 1..Len(channel) |-> (channel[k] \in allowed) = keep_if_member]

\* mutant: only the trs channel is filtered
filter_targets_trs_only(mask, rec) ==
    [ch \in DOMAIN rec |-> IF ch = "trs" THEN MaskSelect(mask, rec[ch]) ELSE rec[ch]]

filter_targets(mask, rec) == [ch \in DOMAIN rec |-> MaskSelect(mask, rec[ch])]

merge_labels(channel, mapping) ==
    [k \in 1..Len(channel) |->
        IF channel[k] \in DOMAIN mapping THEN mapping[channel[k]] ELSE "missing"]

\* os.path.split / splitext of the subject's path: one name per subject
roiname(n) == "subject" \o ToString(n)

-----------------------------------------------------------------------------
Init ==
    /\ \/ prog = "exp" /\ verbose \in BOOLEAN
       \/ prog = "timecourses" /\ verbose = FALSE
    /\ pc = "loop"
    /\ s = 0
    /\ meta = Dead /\ X = Dead /\ ncolX = 0 /\ targets = Dead /\ keep = Dead
    /\ i = 0
    /\ Xeva = None /\ yeva = None /\ roinames = None /\ timecourse_index = None
    /\ Xeva_i = Dead /\ yeva_i = Dead /\ roinames_i = Dead /\ timecourse_index_i = Dead
    /\ log = <<>>
    /\ csv = [written |-> FALSE]
    /\ cvres = <<>> /\ fpos = 0 /\ overall_accuracy = <<>> /\ acctable = <<>>
    /\ failedAt = 0 /\ cause = "none"
    /\ seen = <<>>

-----------------------------------------------------------------------------
\* Variable groups

subjectVars == <<meta, X, ncolX, targets, keep>>
pooledVars == <<Xeva, yeva, roinames, timecourse_index>>
evaVars == <<Xeva_i, yeva_i, roinames_i, timecourse_index_i>>
expVars == <<cvres, fpos, overall_accuracy, acctable>>
callVars == <<prog, verbose>>

-----------------------------------------------------------------------------
\* timecourses(roi, table)

\* fmrilearn.analysis.eva(X, y, trial_index, window): the results it may return.
\* Only the shape is modelled: a matrix with the columns of X and one label and
\* one index per row of it.  tag names the subject whose rows these are.
eva(M, ncol, y, trial_index, window, tag) ==
    { [X |-> [ncol |-> ncol,
              rows |-> [k \in 1..n |-> [of |-> tag, k |-> k, ncol |-> ncol]]],
       y |-> [k \in 1..n |-> [of |-> tag, k |-> k]],
       t |-> [k \in 1..n |-> [of |-> tag, k |-> k]]] : n \in 0..MaxEvaRows }

\* mutant: the filter also keeps a value fsmap has no entry for
keepers_with_rt0 == {"rt0", "rt1", "rt2", "rt3", "rt4"}

keepers == {"rt1", "rt2", "rt3", "rt4"}

fsmap == [rt1 |-> "slow", rt2 |-> "slow", rt3 |-> "fast", rt4 |-> "fast"]

\* np.vstack / np.concatenate of the pooled and the current subject's arrays
vstack(A, B) == [ncol |-> A.ncol, rows |-> A.rows \o B.rows]

\* rt_timecourse.py 35-58: next subject, load the volume and the metadata, construct targets
TcLoad ==
    /\ prog = "timecourses" /\ pc = "loop" /\ s < MaxSubjects
    /\ \E L \in 1..MaxTcLen, c \in ColCounts :
       \E rt \in [1..L -> RtValues], tc \in TrialColumns(L), tr \in TrColumns(L) :
          /\ meta' = [rt |-> rt, trialcount |-> tc, TR |-> tr]
          /\ X' = Volumes(L)
          /\ ncolX' = c
          /\ targets' = [reaction_times |-> rt, trial_index |-> tc, trs |-> tr]
    /\ s' = s + 1
    /\ keep' = Dead
    /\ pc' = "loaded"
    /\ UNCHANGED <<callVars, i, pooledVars, evaVars, log, csv, expVars, failedAt, cause, seen>>

\* rt_timecourse.py 43-49: load_nii or pd.read_csv raises; nothing catches it
TcLoadFail ==
    /\ prog = "timecourses" /\ pc = "loop" /\ s < MaxSubjects
    /\ s' = s + 1
    /\ failedAt' = s + 1
    /\ cause' = "load"
    /\ pc' = "aborted"
    /\ UNCHANGED <<callVars, subjectVars, i, pooledVars, evaVars, log, csv, expVars, seen>>

\* rt_timecourse.py 63: X = X[targets["trs"],:]
TcAlign ==
    /\ prog = "timecourses" /\ pc = "loaded"
    /\ X' = IndexRows(X, targets["trs"])
    /\ pc' = "aligned"
    /\ UNCHANGED <<callVars, s, meta, ncolX, targets, keep, i, pooledVars, evaVars,
                   log, csv, expVars, failedAt, cause, seen>>

\* mutant: the mask is applied to the label record but not to the matrix
TcFilter_MatrixUnfiltered ==
    /\ prog = "timecourses" /\ pc = "aligned"
    /\ keep' = construct_filter(targets["reaction_times"], keepers, TRUE)
    /\ targets' = filter_targets(keep', targets)
    /\ X' = X
    /\ pc' = "filtered"
    /\ UNCHANGED <<callVars, s, meta, ncolX, i, pooledVars, evaVars,
                   log, csv, expVars, failedAt, cause, seen>>

\* rt_timecourse.py 66-70: filter by reaction time
TcFilter ==
    /\ prog = "timecourses" /\ pc = "aligned"
    /\ keep' = construct_filter(targets["reaction_times"], keepers, TRUE)
    /\ targets' = filter_targets(keep', targets)
    /\ X' = MaskSelect(keep', X)
    /\ pc' = "filtered"
    /\ UNCHANGED <<callVars, s, meta, ncolX, i, pooledVars, evaVars,
                   log, csv, expVars, failedAt, cause, seen>>

\* rt_timecourse.py 74-78: targets["fast_slow"] = merge_labels(...)
TcMerge ==
    /\ prog = "timecourses" /\ pc = "filtered"
    /\ targets' = [ch \in DOMAIN targets \cup {"fast_slow"} |->
                     IF ch = "fast_slow"
                     THEN merge_labels(targets["reaction_times"], fsmap)
                     ELSE targets[ch]]
    /\ pc' = "merged"
    /\ UNCHANGED <<callVars, s, meta, X, ncolX, keep, i, pooledVars, evaVars,
                   log, csv, expVars, failedAt, cause, seen>>

\* rt_timecourse.py 87-89: eva and roinames_i; the subject's X, targets and meta
\* are not read again and are dropped here
TcEva ==
    /\ prog = "timecourses" /\ pc = "merged"
    /\ \E r \in eva(X, ncolX, targets["fast_slow"], targets["trial_index"],
                    MINWINDOW, roiname(s)) :
          /\ Xeva_i' = r.X
          /\ yeva_i' = r.y
          /\ timecourse_index_i' = r.t
          /\ roinames_i' = [k \in 1..Len(r.y) |-> roiname(s)]
          /\ seen' = Append(seen, r.X)
    /\ meta' = Dead /\ X' = Dead /\ ncolX' = 0 /\ targets' = Dead /\ keep' = Dead
    /\ pc' = "eva"
    /\ UNCHANGED <<callVars, s, i, pooledVars, log, csv, expVars, failedAt, cause>>

\* mutant: != written as <
ColsDiffer_Less == i > 0 /\ Xeva.ncol < Xeva_i.ncol

\* rt_timecourse.py 92: (i > 0) and (Xeva.shape[1] != Xeva_i.shape[1])
ColsDiffer == i > 0 /\ Xeva.ncol # Xeva_i.ncol

\* rt_timecourse.py 92-95: warn and continue
TcSkip ==
    /\ prog = "timecourses" /\ pc = "eva"
    /\ ColsDiffer
    /\ log' = Append(log, roiname(s))
    /\ Xeva_i' = Dead /\ yeva_i' = Dead /\ roinames_i' = Dead /\ timecourse_index_i' = Dead
    /\ pc' = "loop"
    /\ UNCHANGED <<callVars, s, subjectVars, i, pooledVars, csv, expVars, failedAt, cause, seen>>

\* mutant: the stacking branch forgets timecourse_index
TcJoin_NoIndex ==
    /\ prog = "timecourses" /\ pc = "eva"
    /\ ~ColsDiffer
    /\ IF i = 0
       THEN /\ Xeva' = Xeva_i
            /\ yeva' = yeva_i
            /\ roinames' = roinames_i
            /\ timecourse_index' = timecourse_index_i
       ELSE /\ Xeva' = vstack(Xeva, Xeva_i)
            /\ yeva' = yeva \o yeva_i
            /\ roinames' = roinames \o roinames_i
            /\ timecourse_index' = timecourse_index
    /\ i' = i + 1
    /\ Xeva_i' = Dead /\ yeva_i' = Dead /\ roinames_i' = Dead /\ timecourse_index_i' = Dead
    /\ pc' = "loop"
    /\ UNCHANGED <<callVars, s, subjectVars, log, csv, expVars, failedAt, cause, seen>>

\* rt_timecourse.py 97-110: copy (first accepted subject) or stack, then i += 1
TcJoin ==
    /\ prog = "timecourses" /\ pc = "eva"
    /\ ~ColsDiffer
    /\ IF i = 0
       THEN /\ Xeva' = Xeva_i
            /\ yeva' = yeva_i
            /\ roinames' = roinames_i
            /\ timecourse_index' = timecourse_index_i
       ELSE /\ Xeva' = vstack(Xeva, Xeva_i)
            /\ yeva' = yeva \o yeva_i
            /\ roinames' = roinames \o roinames_i
            /\ timecourse_index' = timecourse_index \o timecourse_index_i
    /\ i' = i + 1
    /\ Xeva_i' = Dead /\ yeva_i' = Dead /\ roinames_i' = Dead /\ timecourse_index_i' = Dead
    /\ pc' = "loop"
    /\ UNCHANGED <<callVars, s, subjectVars, log, csv, expVars, failedAt, cause, seen>>

\* rt_timecourse.py 112-119: the loop is over; build the table and write it.
\* With no accepted subject Xeva is None and Xeva.mean(1) raises before to_csv.
TcSave ==
    /\ prog = "timecourses" /\ pc = "loop"
    /\ IF i = 0
       THEN /\ pc' = "aborted"
            /\ cause' = "nodata"
            /\ csv' = csv
       ELSE /\ pc' = "done"
            /\ cause' = cause
            /\ csv' = [written |-> TRUE,
                       X |-> Xeva,
                       reaction_times |-> yeva,
                       roinames |-> roinames,
                       timecourse_index |-> timecourse_index]
    /\ UNCHANGED <<callVars, s, subjectVars, i, pooledVars, evaVars, log, expVars,
                   failedAt, seen>>

TcNext ==
    \/ TcLoad
    \/ TcLoadFail
    \/ TcAlign
    \/ TcFilter
    \/ TcMerge
    \/ TcEva
    \/ TcSkip
    \/ TcJoin
    \/ TcSave

-----------------------------------------------------------------------------
\* exp(roi, table, verbose)

keepers_lr == {"left", "right"}

\* simpleCV + accuracy_score: the accuracies (in percent) of the NFolds
\* (truth, prediction) pairs; the classifier itself is not modelled
CvOutcomes == { [k \in 1..NFolds |-> 100], [k \in 1..NFolds |-> 25 * (k - 1)] }

\* the row label "cv_" + str(i)
cvlabel(n) == "cv_" \o ToString(n)

\* the row label "overall"
overall == "overall"

\* save_accuracy_table(table, key, value): one more row of the table
save_accuracy_table(tbl, key, value) == Append(tbl, [key |-> key, val |-> value])

\* rf_motor.py 88-111: next subject, read the metadata, construct targets, load the volume
ExpLoad ==
    /\ prog = "exp" /\ pc = "loop" /\ s < MaxSubjects
    /\ \E L \in 1..MaxExpLen :
       \E resps \in [1..L -> RespValues], tr \in TrColumns(L) :
          /\ meta' = [resp |-> resps, TR |-> tr]
          /\ targets' = [resps |-> resps, trs |-> tr]
          /\ X' = Volumes(L)
    /\ ncolX' = ncolX
    /\ s' = s + 1
    /\ keep' = Dead
    /\ pc' = "loaded"
    /\ UNCHANGED <<callVars, i, pooledVars, evaVars, log, csv, expVars, failedAt, cause, seen>>

\* mutant: the failure is caught and the loop goes on with the next subject
ExpLoadFail_Continue ==
    /\ prog = "exp" /\ pc = "loop" /\ s < MaxSubjects
    /\ s' = s + 1
    /\ failedAt' = s + 1
    /\ cause' = "load"
    /\ pc' = "loop"
    /\ UNCHANGED <<callVars, subjectVars, i, pooledVars, evaVars, log, csv, expVars, seen>>

\* rf_motor.py 100-110: pd.read_csv or load_nii raises; nothing catches it
ExpLoadFail ==
    /\ prog = "exp" /\ pc = "loop" /\ s < MaxSubjects
    /\ s' = s + 1
    /\ failedAt' = s + 1
    /\ cause' = "load"
    /\ pc' = "aborted"
    /\ UNCHANGED <<callVars, subjectVars, i, pooledVars, evaVars, log, csv, expVars, seen>>

\* rf_motor.py 112: Xsp = Xsp[targets["trs"],:]
ExpAlign ==
    /\ prog = "exp" /\ pc = "loaded"
    /\ X' = IndexRows(X, targets["trs"])
    /\ pc' = "aligned"
    /\ UNCHANGED <<callVars, s, meta, ncolX, targets, keep, i, pooledVars, evaVars,
                   log, csv, expVars, failedAt, cause, seen>>

\* rf_motor.py 123-126: filter by response
ExpFilter ==
    /\ prog = "exp" /\ pc = "aligned"
    /\ keep' = construct_filter(targets["resps"], keepers_lr, TRUE)
    /\ targets' = filter_targets(keep', targets)
    /\ X' = MaskSelect(keep', X)
    /\ pc' = "filtered"
    /\ UNCHANGED <<callVars, s, meta, ncolX, i, pooledVars, evaVars,
                   log, csv, expVars, failedAt, cause, seen>>

\* rf_motor.py 135-160: smooth, KFold(nrow, n_folds=5), simpleCV, i = 0.
\* KFold raises when there are fewer rows than folds.  The subject's X, targets
\* and meta are not read again and are dropped here.
ExpCV ==
    /\ prog = "exp" /\ pc = "filtered"
    /\ IF Len(X) < NFolds
       THEN /\ pc' = "aborted"
            /\ cause' = "kfold"
            /\ UNCHANGED <<cvres, fpos, i>>
       ELSE /\ cvres' \in CvOutcomes
            /\ fpos' = 1
            /\ i' = 0
            /\ pc' = "save"
            /\ cause' = cause
    /\ meta' = Dead /\ X' = Dead /\ ncolX' = 0 /\ targets' = Dead /\ keep' = Dead
    /\ UNCHANGED <<callVars, s, pooledVars, evaVars, log, csv, overall_accuracy, acctable,
                   failedAt, seen>>

\* rf_motor.py 161-176: one iteration of the save loop
ExpSaveFold ==
    /\ prog = "exp" /\ pc = "save"
    /\ LET accuracy == cvres[fpos] IN
          /\ overall_accuracy' = Append(overall_accuracy, accuracy)
          /\ acctable' = save_accuracy_table(acctable,
                             <<"roi", roiname(s), cvlabel(i)>>, accuracy)
    /\ i' = IF verbose THEN i + 1 ELSE i
    /\ fpos' = fpos + 1
    /\ pc' = IF fpos = NFolds THEN "loop" ELSE "save"
    /\ UNCHANGED <<callVars, s, subjectVars, pooledVars, evaVars, log, csv, cvres,
                   failedAt, cause, seen>>

\* mutant: the mean is taken over the last subject's folds only
ExpOverall_LastSubject ==
    /\ prog = "exp" /\ pc = "loop"
    /\ LET omean == Mean(cvres) IN
          acctable' = save_accuracy_table(acctable, <<"roi", "roi", overall>>, omean)
    /\ pc' = "done"
    /\ UNCHANGED <<callVars, s, subjectVars, i, pooledVars, evaVars, log, csv,
                   cvres, fpos, overall_accuracy, failedAt, cause, seen>>

\* rf_motor.py 178-179: the subject loop is over; save the overall mean
ExpOverall ==
    /\ prog = "exp" /\ pc = "loop"
    /\ LET omean == Mean(overall_accuracy) IN
          acctable' = save_accuracy_table(acctable, <<"roi", "roi", overall>>, omean)
    /\ pc' = "done"
    /\ UNCHANGED <<callVars, s, subjectVars, i, pooledVars, evaVars, log, csv,
                   cvres, fpos, overall_accuracy, failedAt, cause, seen>>

ExpNext ==
    \/ ExpLoad
    \/ ExpLoadFail
    \/ ExpAlign
    \/ ExpFilter
    \/ ExpCV
    \/ ExpSaveFold
    \/ ExpOverall

Next == TcNext \/ ExpNext

Spec == Init /\ [][Next]_vars

-----------------------------------------------------------------------------
\* Properties

\* the rows of the matrices of hist whose column count is c, in order
RECURSIVE RowsOfMatching(_, _)
RowsOfMatching(hist, c) ==
    IF Len(hist) = 0 THEN <<>>
    ELSE (IF Head(hist).ncol = c THEN Head(hist).rows ELSE <<>>)
         \o RowsOfMatching(Tail(hist), c)

\* the names of the subjects of hist (subject n is hist[n]) whose column count is not c
RECURSIVE NamesOfMismatching(_, _, _)
NamesOfMismatching(hist, c, n) ==
    IF Len(hist) = 0 THEN <<>>
    ELSE (IF Head(hist).ncol # c THEN <<roiname(n)>> ELSE <<>>)
         \o NamesOfMismatching(Tail(hist), c, n + 1)

\* C1: in timecourses, at the end of every iteration and at the save, the pooled
\* matrix holds exactly the eva rows of the subjects whose column count equals the
\* first subject's, in subject order; every other subject was warned about and
\* skipped, and the loop went on (every started subject reached the check).
C1_SkipOnMismatch ==
    (prog = "timecourses" /\ pc \in {"loop", "done"} /\ Len(seen) > 0) =>
        /\ s = Len(seen)
        /\ Xeva.ncol = seen[1].ncol
        /\ Xeva.rows = RowsOfMatching(seen, seen[1].ncol)
        /\ log = NamesOfMismatching(seen, seen[1].ncol, 1)
        /\ (pc = "done" => csv.written /\ csv.X = Xeva)

\* a subject is accepted, the next is skipped, the third is accepted again
C1_Witness ==
    /\ prog = "timecourses" /\ pc = "done" /\ Len(seen) = 3
    /\ seen[2].ncol # seen[1].ncol /\ seen[3].ncol = seen[1].ncol
    /\ \A n \in 1..3 : Len(seen[n].rows) = 1
    /\ Len(csv.X.rows) = 2
    /\ log = <<roiname(2)>>

\* C2: no two rows of the accuracy table written by one call of exp share a key.
C2_DistinctKeys ==
    \A a, b \in 1..Len(acctable) : a # b => acctable[a].key # acctable[b].key

\* the metadata column a channel of the label record was built from
MetaColumn(ch) ==
    CASE ch = "reaction_times" -> "rt"
      [] ch = "trial_index" -> "trialcount"
      [] ch = "trs" -> "TR"
      [] ch = "resps" -> "resp"

\* the row of the metadata table whose TR is volume v
MetaRow(v) == CHOOSE j \in 1..Len(meta["TR"]) : meta["TR"][j] = v

\* C3: in both drivers, after the alignment and after the filter (and the merge),
\* the matrix has as many rows as every channel has entries, row k is the volume
\* named by entry k of trs, and entry k of every channel is the metadata of that
\* volume.
C3_RowsMatchLabels ==
    pc \in {"aligned", "filtered", "merged"} =>
        /\ \A ch \in DOMAIN targets : Len(targets[ch]) = Len(X)
        /\ \A k \in 1..Len(X) :
              /\ X[k] = targets["trs"][k]
              /\ \E j \in 1..Len(meta["TR"]) : meta["TR"][j] = X[k]
              /\ \A ch \in DOMAIN targets \ {"fast_slow"} :
                    targets[ch][k] = meta[MetaColumn(ch)][MetaRow(X[k])]

\* exp after a filter that drops a row between two kept rows
C3_Witness ==
    /\ prog = "exp" /\ pc = "filtered"
    /\ Len(X) >= 2 /\ Len(X) < Len(meta["TR"])
    /\ \E a, b, c \in 1..Len(keep) : a < b /\ b < c /\ keep[a] /\ ~keep[b] /\ keep[c]
    /\ X[1] # 0

TruePositions(mask) == {k \in 1..Len(mask) : mask[k]}

\* the position of the j-th true entry of mask
NthTrue(mask, j) ==
    CHOOSE k \in TruePositions(mask) :
        Cardinality({t \in TruePositions(mask) : t <= k}) = j

\* C4: the filter step's filter_targets(keep, targets) returns a record with the
\* same channels, every channel as long as the mask has true entries and holding
\* the entries at the true positions, in their order.
C4_FilterTargets ==
    [][ (pc = "aligned" /\ pc' = "filtered") =>
          /\ DOMAIN targets' = DOMAIN targets
          /\ \A ch \in DOMAIN targets :
                /\ Len(keep') = Len(targets[ch])
                /\ Len(targets'[ch]) = Cardinality(TruePositions(keep'))
                /\ \A j \in 1..Len(targets'[ch]) :
                      targets'[ch][j] = targets[ch][NthTrue(keep', j)] ]_vars

\* a filtered record of timecourses whose mask dropped the first of two entries
C4_Witness ==
    /\ prog = "timecourses" /\ pc = "filtered"
    /\ keep = <<FALSE, TRUE>>
    /\ Len(targets["trial_index"]) = 1
    /\ targets["trs"][1] = meta["TR"][2]

\* C7 as stated: after a load failure the run is over and the result table holds
\* no row of it.
C7_NoPartialResults ==
    failedAt > 0 =>
        /\ pc = "aborted"
        /\ ~ENABLED Next
        /\ ~csv.written
        /\ acctable = <<>>

\* C7, amended: a load failure is fatal in both drivers: the run is over at the
\* failing subject, nothing more is processed, timecourses writes no table and
\* exp no overall row; the fold rows exp saved for the subjects before the failing
\* one stay in the table.
C7_FatalLoad ==
    failedAt > 0 =>
        /\ pc = "aborted" /\ cause = "load"
        /\ s = failedAt
        /\ ~ENABLED Next
        /\ ~csv.written
        /\ prog = "timecourses" => acctable = <<>>
        /\ prog = "exp" =>
              /\ Len(acctable) = NFolds * (failedAt - 1)
              /\ \A a \in 1..Len(acctable) :
                    /\ acctable[a].key[3] # overall
                    /\ acctable[a].key[2] = roiname(((a - 1) \div NFolds) + 1)

\* exp fails to load its second subject after saving the first one's folds
C7_Witness ==
    /\ prog = "exp" /\ failedAt = 2 /\ pc = "aborted"
    /\ Len(acctable) = NFolds

OverallRows == {a \in 1..Len(acctable) : acctable[a].key[3] = overall}

\* C8: a call of exp that ran at least one subject to the end holds exactly one
\* overall row, keyed [roi, roi, overall]; it is the last row, after the NFolds
\* fold rows of every subject, and its value is the mean of the values of all
\* fold rows; before the end of the call there is no overall row.
C8_OverallRow ==
    prog = "exp" =>
        /\ pc # "done" => OverallRows = {}
        /\ (pc = "done" /\ s >= 1) =>
              LET n == Len(acctable) IN
              /\ OverallRows = {n}
              /\ n - 1 = NFolds * s
              /\ acctable[n].key = <<"roi", "roi", overall>>
              /\ acctable[n].val =
                    [num |-> SeqSum([a \in 1..(n - 1) |-> acctable[a].val]),
                     den |-> n - 1]

\* two subjects with different fold accuracies, then the overall row
C8_Witness ==
    /\ prog = "exp" /\ pc = "done" /\ s = 2
    /\ Len(acctable) = 2 * NFolds + 1
    /\ acctable[2].val # acctable[NFolds + 2].val

\* C9: in timecourses the values the filter keeps are the keys of fsmap; after
\* the filter every reaction time has an entry in fsmap, and after the merge
\* fast_slow is as long as the other channels and maps every entry to fast or slow.
C9_MergeMapped ==
    prog = "timecourses" =>
        /\ keepers = DOMAIN fsmap
        /\ pc \in {"filtered", "merged"} =>
              \A k \in 1..Len(targets["reaction_times"]) :
                  targets["reaction_times"][k] \in DOMAIN fsmap
        /\ pc = "merged" =>
              /\ "fast_slow" \in DOMAIN targets
              /\ \A ch \in DOMAIN targets :
                    Len(targets[ch]) = Len(targets["fast_slow"])
              /\ \A k \in 1..Len(targets["fast_slow"]) :
                    /\ targets["fast_slow"][k] \in {"fast", "slow"}
                    /\ targets["fast_slow"][k] = fsmap[targets["reaction_times"][k]]

\* one entry dropped by the filter, the other merged
C9_Witness ==
    /\ prog = "timecourses" /\ pc = "merged"
    /\ Len(meta["rt"]) = 2
    /\ targets["fast_slow"] = <<"fast">>

C10_Agree ==
    prog = "timecourses" =>
        /\ (pc \in {"loop", "done"} /\ i = 0) =>
              /\ Xeva = None /\ yeva = None
              /\ roinames = None /\ timecourse_index = None
        /\ (pc \in {"loop", "done"} /\ i > 0) =>
              /\ Len(yeva) = Len(Xeva.rows)
              /\ Len(roinames) = Len(Xeva.rows)
              /\ Len(timecourse_index) = Len(Xeva.rows)
              /\ \A k \in 1..Len(Xeva.rows) : Xeva.rows[k].ncol = Xeva.ncol
        /\ csv.written =>
              /\ Len(csv.reaction_times) = Len(csv.X.rows)
              /\ Len(csv.roinames) = Len(csv.X.rows)
              /\ Len(csv.timecourse_index) = Len(csv.X.rows)

C10_SkipStep ==
    (prog = "timecourses" /\ pc = "eva" /\ i > 0 /\ Xeva.ncol # Xeva_i.ncol) =>
        /\ pc' = "loop"
        /\ UNCHANGED <<pooledVars, i>>

\* C10: in timecourses, at the end of every iteration the four pooled accumulators
\* have the same number of entries and the pooled rows the same column count, a
\* skipped subject leaves all four unchanged, and the columns of the table written
\* at the save all have the pooled matrix's row count.
C10_PooledAgree == []C10_Agree /\ [][C10_SkipStep]_vars

\* a table written from two accepted subjects and a skipped one between them
C10_Witness ==
    /\ prog = "timecourses" /\ pc = "done" /\ i = 2 /\ s = 3
    /\ Len(log) = 1
    /\ Len(csv.roinames) = 2

====
